---------------------------- MODULE Spec2Model ----------------------------
(***************************************************************************)
(* A model of the SO_Extraction repository: the zonal aggregation of a     *)
(* gridded time series over polygons (zonal_agg.py) and the processing of  *)
(* the downloaded chunk files (cds_async.py, cds.py).                      *)
(*                                                                         *)
(* Numbers.  A float is a pair <<n, d>> (the fraction n/d in lowest terms, *)
(* d > 0) and NaN is the empty tuple, so that arithmetic is exact and a    *)
(* mean is never rounded.  Coordinates are fixed-point integers in units   *)
(* of a quarter of a degree.                                               *)
(***************************************************************************)
EXTENDS Integers, Sequences, FiniteSets, TLC

VARIABLES
    latitude,           \* historical_data['latitude']: the latitude axis
    longitude,          \* historical_data['longitude']: the longitude axis
    geopolygons,        \* the GeoDataFrame: a sequence of rows
    historical_data,    \* the DataArray: a sequence of timestamps
    pc,                 \* where daily_aggregation stands
    daily_groups,       \* the groups of historical_data.groupby('valid_time.date')
    group_idx,          \* the group the for loop of daily_aggregation is at
    transform,          \* zonal_aggregation's local: the affine transform
    mask,               \* zonal_aggregation's local: the rasterized zone ids
    zonal,              \* what zonal_aggregation returned last
    geopolygons_daily,  \* daily_aggregation's table of daily statistics
    printed,            \* the rows print() has written, in order
    raised,             \* the exception that ended the run, "" if none
    rasterize_calls,    \* how many times features.rasterize was called
    mask_log,           \* the zone raster each reduction used, in order
    files,              \* post_fetch: per variable, the chunk files found
    var_idx,            \* post_fetch: the variable the outer loop is at
    file_idx,           \* post_fetch: the file the inner loop is at
    dataset,            \* post_fetch: the files opened so far
    log,                \* the messages logged (or printed, in cds.py)
    saved,              \* per variable, the files whose data was saved
    fpc,                \* where post_fetch / concat_all stands
    client,             \* which class runs: cds_async.CDSAPIClient or cds.CDSAPI
    start,              \* self.start: the configured start, a datetime
    latest,             \* self.latest: end - delay, a datetime
    variables,          \* self.variables: how many variables are configured
    years,              \* self.years, set by scope_years
    months,             \* self.months, set by scope_date
    days,               \* self.days, set by scope_date
    hours,              \* self.hours, set by scope_date
    fetch_var,          \* fetch: the variable the outer loop is at
    year_idx,           \* fetch: the year the middle loop is at
    month_idx,          \* fetch: the month the inner loop is at
    tasks,              \* fetch: the retrievals handed to the executor
    lpc                 \* where launch stands

aggVars == <<latitude, longitude, geopolygons, historical_data, pc,
             daily_groups, group_idx, transform, mask, zonal,
             geopolygons_daily, printed, raised, rasterize_calls, mask_log>>

fileVars == <<files, var_idx, file_idx, dataset, log, saved, fpc, client>>

launchVars == <<start, latest, variables, years, months, days, hours,
                fetch_var, year_idx, month_idx, tasks, lpc>>

vars == <<aggVars, fileVars, launchVars>>

---------------------------------------------------------------------------
(* Bounds of the model. *)

MaxDays == 2        \* calendar days in the cube
MaxPolygons == 2    \* rows of the GeoDataFrame
MaxHours == 2       \* timestamps of a day that is not a full day
MaxVariables == 2   \* config['variables']
MaxFiles == 2       \* chunk files of one variable

(* The hours of a full day: range(0, 24). *)
HoursPerDay == 24

---------------------------------------------------------------------------
(* Exact arithmetic on floats. *)

NaN == <<>>

IsNaN(x) == x = NaN

Abs(n) == IF n < 0 THEN -n ELSE n

Min2(a, b) == IF a < b THEN a ELSE b

Max2(a, b) == IF a < b THEN b ELSE a

RECURSIVE GCD(_, _)
GCD(a, b) == IF b = 0 THEN a ELSE GCD(b, a % b)

\* n/d in lowest terms, d > 0
Frac(n, d) ==
    LET g == GCD(Abs(n), d)
    IN  <<n \div g, d \div g>>

Num(n) == <<n, 1>>

AddF(x, y) == Frac(x[1] * y[2] + y[1] * x[2], x[2] * y[2])

LessF(x, y) == x[1] * y[2] < y[1] * x[2]

DivF(x, k) == Frac(x[1], x[2] * k)

MulF(x, k) == IF IsNaN(x) THEN NaN ELSE Frac(x[1] * k, x[2])

---------------------------------------------------------------------------
(* The grid and the rasterization (zonal_aggregation, lines 56-76).        *)
(* A 2-D array of shape (nrows, ncols) is the sequence of its elements in  *)
(* memory order, row by row: the element of row r, column c (both from 1)  *)
(* is at index (r - 1) * ncols + c.                                         *)

CellRow(k, ncols) == ((k - 1) \div ncols) + 1

CellCol(k, ncols) == ((k - 1) % ncols) + 1

\* out_shape=(len(latitude), len(longitude))
OutShape(lat, lon) == <<Len(lat), Len(lon)>>

\* A faulty variant of DeriveTransform: the pixel size is the mean spacing
\* of the whole axis.
DeriveTransformMeanSpacing(lat, lon) ==
    [c |-> lon[1], a |-> (lon[Len(lon)] - lon[1]) \div (Len(lon) - 1), b |-> 0,
     f |-> lat[1], d |-> 0, e |-> (lat[Len(lat)] - lat[1]) \div (Len(lat) - 1)]

\* Affine.translation(lon[0], lat[0]) * Affine.scale(lon[1]-lon[0], lat[1]-lat[0]):
\* x = c + a*col, y = f + e*row, no shear (b = d = 0).
DeriveTransform(lat, lon) ==
    [c |-> lon[1], a |-> lon[2] - lon[1], b |-> 0,
     f |-> lat[1], d |-> 0, e |-> lat[2] - lat[1]]

\* The footprint of the pixel in row r, column col (both from 1) under t.
PixelBox(t, r, col) ==
    LET x1 == t.c + t.a * (col - 1)
        x2 == t.c + t.a * col
        y1 == t.f + t.e * (r - 1)
        y2 == t.f + t.e * r
    IN  [w |-> Min2(x1, x2), e |-> Max2(x1, x2),
         s |-> Min2(y1, y2), n |-> Max2(y1, y2)]

\* all_touched=True: the pixel is burned when the polygon reaches into its
\* footprint.  The geometries of the model are rectangles.
Touches(geom, box) ==
    /\ Max2(geom.w, box.w) < Min2(geom.e, box.e)
    /\ Max2(geom.s, box.s) < Min2(geom.n, box.n)

\* Whether the geometry covers the cell at index k of an array of ncols columns.
Covers(geom, t, k, ncols) ==
    Touches(geom, PixelBox(t, CellRow(k, ncols), CellCol(k, ncols)))

\* A faulty variant of Shapes: the burn value is the index from 0.
ShapesFromZero(polys) == [i \in 1 .. Len(polys) |-> <<polys[i].geometry, i - 1>>]

\* shapes = [(geom, i + 1) for i, geom in enumerate(geopolygons.geometry)]
\* (the input index i of the code counts from 0, the i here from 1)
Shapes(polys) == [i \in 1 .. Len(polys) |-> <<polys[i].geometry, i>>]

\* A faulty variant of BurnShape: a cell once burned is never burned again.
BurnShapeKeepFirst(out, shape, t, ncols) ==
    [k \in 1 .. Len(out) |->
        IF out[k] = 0 /\ Covers(shape[1], t, k, ncols) THEN shape[2] ELSE out[k]]

\* Burning one shape writes its value to every cell it covers.
BurnShape(out, shape, t, ncols) ==
    [k \in 1 .. Len(out) |->
        IF Covers(shape[1], t, k, ncols) THEN shape[2] ELSE out[k]]

RECURSIVE BurnFrom(_, _, _, _, _)
BurnFrom(out, shapes, i, t, ncols) ==
    IF i > Len(shapes) THEN out
    ELSE BurnFrom(BurnShape(out, shapes[i], t, ncols), shapes, i + 1, t, ncols)

\* features.rasterize(shapes, out_shape, transform, fill=0, all_touched=True):
\* the shapes are burned in their order onto an array filled with 0.
Rasterize(shapes, out_shape, t) ==
    BurnFrom([k \in 1 .. out_shape[1] * out_shape[2] |-> 0],
             shapes, 1, t, out_shape[2])

---------------------------------------------------------------------------
(* The reductions of xarray (zonal_aggregation, lines 88-104). *)

\* A faulty variant of PolygonMask: every cell the polygon covers, whatever
\* was burned over it later.
PolygonMaskByCover(m, polygon_id) ==
    [k \in 1 .. Len(m) |->
        Covers(geopolygons[polygon_id].geometry, transform, k, Len(longitude))]

\* polygon_mask = (masker == polygon_id)
PolygonMask(m, polygon_id) == [k \in 1 .. Len(m) |-> m[k] = polygon_id]

\* values = historical_data.where(polygon_mask): the mask is broadcast over
\* the time axis and a cell outside it becomes NaN.
Where(data, polygon_mask) ==
    [t \in 1 .. Len(data) |->
        [k \in 1 .. Len(data[t]) |->
            IF polygon_mask[k] THEN data[t][k] ELSE NaN]]

\* The reductions of a sequence take it by halves.
FirstHalf(xs) == SubSeq(xs, 1, Len(xs) \div 2)

SecondHalf(xs) == SubSeq(xs, Len(xs) \div 2 + 1, Len(xs))

RECURSIVE SumSkipna(_)
\* nansum: a missing element adds nothing, and the empty sum is 0
SumSkipna(xs) ==
    IF Len(xs) = 0 THEN Num(0)
    ELSE IF Len(xs) = 1 THEN (IF IsNaN(xs[1]) THEN Num(0) ELSE xs[1])
    ELSE AddF(SumSkipna(FirstHalf(xs)), SumSkipna(SecondHalf(xs)))

RECURSIVE CountValid(_)
CountValid(xs) ==
    IF Len(xs) = 0 THEN 0
    ELSE IF Len(xs) = 1 THEN (IF IsNaN(xs[1]) THEN 0 ELSE 1)
    ELSE CountValid(FirstHalf(xs)) + CountValid(SecondHalf(xs))

RECURSIVE SumInt(_)
SumInt(ns) ==
    IF Len(ns) = 0 THEN 0
    ELSE IF Len(ns) = 1 THEN ns[1]
    ELSE SumInt(FirstHalf(ns)) + SumInt(SecondHalf(ns))

\* The greater and the lesser of two values, a missing one giving way.
NanMax2(x, y) ==
    IF IsNaN(x) THEN y ELSE IF IsNaN(y) THEN x ELSE IF LessF(x, y) THEN y ELSE x

NanMin2(x, y) ==
    IF IsNaN(x) THEN y ELSE IF IsNaN(y) THEN x ELSE IF LessF(y, x) THEN y ELSE x

RECURSIVE MaxSkipna(_)
\* nanmax: NaN when no element is valid
MaxSkipna(xs) ==
    IF Len(xs) = 0 THEN NaN
    ELSE IF Len(xs) = 1 THEN xs[1]
    ELSE NanMax2(MaxSkipna(FirstHalf(xs)), MaxSkipna(SecondHalf(xs)))

RECURSIVE MinSkipna(_)
\* nanmin: NaN when no element is valid
MinSkipna(xs) ==
    IF Len(xs) = 0 THEN NaN
    ELSE IF Len(xs) = 1 THEN xs[1]
    ELSE NanMin2(MinSkipna(FirstHalf(xs)), MinSkipna(SecondHalf(xs)))

\* The reductions below run over every element of the (time, lat, lon)
\* array: slice by slice, then over the slices' results.
ArraySum(values) ==
    SumSkipna([t \in 1 .. Len(values) |-> SumSkipna(values[t])])

ArrayCount(values) ==
    SumInt([t \in 1 .. Len(values) |-> CountValid(values[t])])

ArraySize(values) ==
    SumInt([t \in 1 .. Len(values) |-> Len(values[t])])

\* A faulty variant of XrMean: the sum is divided by the size of the
\* array, the missing elements counted in.
XrMeanCountAll(values) ==
    IF ArrayCount(values) = 0 THEN NaN
    ELSE DivF(ArraySum(values), ArraySize(values))

\* values.mean(): skipna, NaN when nothing is valid
XrMean(values) ==
    IF ArrayCount(values) = 0 THEN NaN
    ELSE DivF(ArraySum(values), ArrayCount(values))

\* A faulty variant of XrMax: only the first timestamp is looked at.
XrMaxFirstSlice(values) == MaxSkipna(values[1])

\* values.max() and values.min(): skipna, NaN when nothing is valid
XrMax(values) ==
    MaxSkipna([t \in 1 .. Len(values) |-> MaxSkipna(values[t])])

XrMin(values) ==
    MinSkipna([t \in 1 .. Len(values) |-> MinSkipna(values[t])])

\* A faulty variant of XrSum: only the first timestamp is summed.
XrSumFirstSlice(values) == ArraySum(SubSeq(values, 1, 1))

\* values.sum(): skipna with min_count=None, so a missing element counts
\* as 0 and the sum of an array with nothing valid is 0.0
XrSum(values) == ArraySum(values)

\* One pass of the loop over polygon_id.
ZoneStats(data, m, polygon_id) ==
    LET values == Where(data, PolygonMask(m, polygon_id))
    IN  [mean |-> XrMean(values), max |-> XrMax(values),
         min |-> XrMin(values), total |-> XrSum(values)]

\* The four lists zonal_aggregation returns, one entry per polygon.
ZonalLists(data, m, n) ==
    LET st == [z \in 1 .. n |-> ZoneStats(data, m, z)]
    IN  [zonal_means |-> [z \in 1 .. n |-> st[z].mean],
         zonal_maximums |-> [z \in 1 .. n |-> st[z].max],
         zonal_minimums |-> [z \in 1 .. n |-> st[z].min],
         zonal_totals |-> [z \in 1 .. n |-> st[z].total]]

---------------------------------------------------------------------------
(* The inputs of a run. *)

\* The axes: the 3 x 3 grid with latitudes [2, 1, 0] and longitudes
\* [0, 1, 2], and axes of a single sample.
LatChoices == {<<8, 4, 0>>, <<4>>}

LonChoices == {<<0, 4, 8>>, <<4>>}

\* The rows of the GeoDataFrame.  With the transform of the 3 x 3 grid,
\* Centre reaches into the four pixels of rows 1-2, columns 1-2, Small lies
\* inside the pixel of row 2, column 1, East reaches into the four pixels
\* of rows 2-3, columns 2-3, and Out lies east of the grid.
PolygonChoices ==
    { [location |-> "Centre", geometry |-> [w |-> 2, e |-> 6, s |-> 2, n |-> 6]],
      [location |-> "Small", geometry |-> [w |-> 1, e |-> 3, s |-> 1, n |-> 3]],
      [location |-> "East", geometry |-> [w |-> 5, e |-> 11, s |-> -3, n |-> 3]],
      [location |-> "Out", geometry |-> [w |-> 13, e |-> 15, s |-> 1, n |-> 3]] }

\* A 2-D slice with every cell valid, all values different.
Ramp(nrows, ncols) == [k \in 1 .. nrows * ncols |-> Num(k)]

\* A 2-D slice with the missing value at every other cell.
Holes(nrows, ncols) ==
    [k \in 1 .. nrows * ncols |->
        IF (CellRow(k, ncols) + CellCol(k, ncols)) % 2 = 1 THEN NaN
        ELSE Num(CellRow(k, ncols) + 2 * CellCol(k, ncols))]

\* A 2-D slice with nothing valid.
Void(nrows, ncols) == [k \in 1 .. nrows * ncols |-> NaN]

SliceChoices(nrows, ncols) ==
    {Ramp(nrows, ncols), Holes(nrows, ncols), Void(nrows, ncols)}

SeqsUpTo(S, n) == UNION {[1 .. k -> S] : k \in 1 .. n}

\* The timestamps of one day: a few hours of any slices, or a full day of
\* identical slices.
BucketChoices(nrows, ncols) ==
    SeqsUpTo(SliceChoices(nrows, ncols), MaxHours)
        \cup {[h \in 1 .. HoursPerDay |-> s] : s \in SliceChoices(nrows, ncols)}

\* The days of a cube of several days: one or two timestamps each.
DayChoices(nrows, ncols) ==
    { <<Ramp(nrows, ncols)>>, <<Holes(nrows, ncols)>>,
      <<Ramp(nrows, ncols), Holes(nrows, ncols)>> }

RECURSIVE Stamp(_, _)
\* The cube of the day buckets: each timestamp with its date.
Stamp(buckets, d) ==
    IF d > Len(buckets) THEN <<>>
    ELSE [h \in 1 .. Len(buckets[d]) |-> [date |-> d, values |-> buckets[d][h]]]
            \o Stamp(buckets, d + 1)

Reverse(xs) == [i \in 1 .. Len(xs) |-> xs[Len(xs) + 1 - i]]

\* The cubes of up to MaxDays days, the timestamps in chronological order
\* or (files concatenated in another order) in the reverse of it.
CubeChoices(nrows, ncols) ==
    LET chrono == {Stamp(b, 1) : b \in SeqsUpTo(DayChoices(nrows, ncols), MaxDays)}
    IN  chrono \cup {Reverse(x) : x \in chrono}

None == [none |-> TRUE]

---------------------------------------------------------------------------
(* daily_aggregation (lines 109-139) and the zonal_aggregation it calls. *)

Dates(data) == {data[i].date : i \in 1 .. Len(data)}

RECURSIVE SortedDates(_)
SortedDates(S) ==
    IF S = {} THEN <<>>
    ELSE LET d == CHOOSE x \in S : \A y \in S : x <= y
         IN  <<d>> \o SortedDates(S \ {d})

OfDate(data, d) ==
    LET keep(ts) == ts.date = d
        sel == SelectSeq(data, keep)
    IN  [h \in 1 .. Len(sel) |-> sel[h].values]

\* historical_data.groupby('valid_time.date'): one group per date, the
\* dates ascending, each group the timestamps of its date in their order.
GroupBy(data) ==
    LET ds == SortedDates(Dates(data))
    IN  [g \in 1 .. Len(ds) |-> [day |-> ds[g], daily_data |-> OfDate(data, ds[g])]]

InitLaunchIdle ==
    /\ start = None
    /\ latest = None
    /\ variables = 0
    /\ years = <<>>
    /\ months = <<>>
    /\ days = <<>>
    /\ hours = <<>>
    /\ fetch_var = 0
    /\ year_idx = 0
    /\ month_idx = 0
    /\ tasks = <<>>
    /\ lpc = "idle"

InitFilesIdle ==
    /\ files = <<>>
    /\ var_idx = 0
    /\ file_idx = 0
    /\ dataset = <<>>
    /\ log = <<>>
    /\ saved = <<>>
    /\ fpc = "idle"
    /\ client = "none"

Init ==
    /\ latitude \in LatChoices
    /\ longitude \in LonChoices
    /\ geopolygons \in SeqsUpTo(PolygonChoices, MaxPolygons)
    /\ historical_data \in CubeChoices(Len(latitude), Len(longitude))
    /\ pc = "start"
    /\ daily_groups = <<>>
    /\ group_idx = 0
    /\ transform = None
    /\ mask = <<>>
    /\ zonal = None
    /\ geopolygons_daily = <<>>
    /\ printed = <<>>
    /\ raised = ""
    /\ rasterize_calls = 0
    /\ mask_log = <<>>
    /\ InitFilesIdle
    /\ InitLaunchIdle

\* geopolygons_daily = geopolygons.copy(); daily_groups = groupby(...);
\* the for loop takes its first group.
DailyAggregationStart ==
    /\ pc = "start"
    /\ geopolygons_daily' = geopolygons
    /\ daily_groups' = GroupBy(historical_data)
    /\ group_idx' = 1
    /\ pc' = "transform"
    /\ UNCHANGED <<latitude, longitude, geopolygons, historical_data, transform,
                   mask, zonal, printed, raised, rasterize_calls, mask_log>>
    /\ UNCHANGED <<fileVars, launchVars>>

\* A faulty variant of ZonalAggregationRasterize: the zone raster of the
\* first call is kept and used again.
ZonalAggregationRasterizeCached ==
    /\ pc = "rasterize"
    /\ IF rasterize_calls = 0
       THEN /\ mask' = Rasterize(Shapes(geopolygons),
                                 OutShape(latitude, longitude), transform)
            /\ rasterize_calls' = 1
       ELSE UNCHANGED <<mask, rasterize_calls>>
    /\ pc' = "reduce"
    /\ UNCHANGED <<latitude, longitude, geopolygons, historical_data,
                   daily_groups, group_idx, transform, zonal, geopolygons_daily,
                   printed, raised, mask_log>>
    /\ UNCHANGED <<fileVars, launchVars>>

\* A faulty variant of ZonalAggregationTransform: an axis too short gives a
\* transform with pixels of size 0 and the run goes on.
ZonalAggregationTransformSilent ==
    /\ pc = "transform"
    /\ transform' =
            IF Len(longitude) < 2 \/ Len(latitude) < 2
            THEN [c |-> 0, a |-> 0, b |-> 0, f |-> 0, d |-> 0, e |-> 0]
            ELSE DeriveTransform(latitude, longitude)
    /\ pc' = "rasterize"
    /\ UNCHANGED <<latitude, longitude, geopolygons, historical_data,
                   daily_groups, group_idx, mask, zonal, geopolygons_daily,
                   printed, raised, rasterize_calls, mask_log>>
    /\ UNCHANGED <<fileVars, launchVars>>

\* Lines 57-63.  Indexing an axis at [0] or [1] beyond its length raises
\* IndexError, which nothing catches.
ZonalAggregationTransform ==
    /\ pc = "transform"
    /\ IF Len(longitude) < 2 \/ Len(latitude) < 2
       THEN /\ raised' = "IndexError"
            /\ pc' = "raised"
            /\ UNCHANGED transform
       ELSE /\ transform' = DeriveTransform(latitude, longitude)
            /\ pc' = "rasterize"
            /\ UNCHANGED raised
    /\ UNCHANGED <<latitude, longitude, geopolygons, historical_data,
                   daily_groups, group_idx, mask, zonal, geopolygons_daily,
                   printed, rasterize_calls, mask_log>>
    /\ UNCHANGED <<fileVars, launchVars>>

\* Lines 66-81.
ZonalAggregationRasterize ==
    /\ pc = "rasterize"
    /\ mask' = Rasterize(Shapes(geopolygons), OutShape(latitude, longitude), transform)
    /\ rasterize_calls' = rasterize_calls + 1
    /\ pc' = "reduce"
    /\ UNCHANGED <<latitude, longitude, geopolygons, historical_data,
                   daily_groups, group_idx, transform, zonal, geopolygons_daily,
                   printed, raised, mask_log>>
    /\ UNCHANGED <<fileVars, launchVars>>

\* Lines 83-106.
ZonalAggregationReduce ==
    /\ pc = "reduce"
    /\ zonal' = ZonalLists(daily_groups[group_idx].daily_data, mask, Len(geopolygons))
    /\ mask_log' = Append(mask_log, mask)
    /\ pc' = "assign"
    /\ UNCHANGED <<latitude, longitude, geopolygons, historical_data,
                   daily_groups, group_idx, transform, mask, geopolygons_daily,
                   printed, raised, rasterize_calls>>
    /\ UNCHANGED <<fileVars, launchVars>>

\* The columns printed: ['date', 'location', 'mean_value', ...].
PrintedColumns(row) ==
    [date |-> row.date, location |-> row.location, mean_value |-> row.mean_value,
     max_value |-> row.max_value, min_value |-> row.min_value,
     total_value |-> row.total_value]

\* Lines 131-137: the columns are assigned on the one table, over whatever
\* the day before left in them.
AssignColumns(table, day, z) ==
    [i \in 1 .. Len(table) |->
        [location |-> table[i].location, geometry |-> table[i].geometry,
         date |-> day,
         mean_value |-> z.zonal_means[i], max_value |-> z.zonal_maximums[i],
         min_value |-> z.zonal_minimums[i], total_value |-> z.zonal_totals[i]]]

\* Lines 131-139, and the for loop going on to its next group.
AssignAndPrint ==
    /\ pc = "assign"
    /\ geopolygons_daily' =
            AssignColumns(geopolygons_daily, daily_groups[group_idx].day, zonal)
    /\ printed' = printed \o
            [i \in 1 .. Len(geopolygons_daily) |->
                PrintedColumns(geopolygons_daily'[i])]
    /\ group_idx' = group_idx + 1
    /\ pc' = IF group_idx < Len(daily_groups) THEN "transform" ELSE "done"
    /\ UNCHANGED <<latitude, longitude, geopolygons, historical_data,
                   daily_groups, transform, mask, zonal, raised,
                   rasterize_calls, mask_log>>
    /\ UNCHANGED <<fileVars, launchVars>>

Next ==
    \/ DailyAggregationStart
    \/ ZonalAggregationTransform
    \/ ZonalAggregationRasterize
    \/ ZonalAggregationReduce
    \/ AssignAndPrint

Spec == Init /\ [][Next]_vars

\* A run of daily_aggregation over the cube of a single day, the day's
\* timestamps drawn from BucketChoices.
InitOneDay ==
    /\ latitude \in LatChoices
    /\ longitude \in LonChoices
    /\ geopolygons \in SeqsUpTo(PolygonChoices, MaxPolygons)
    /\ historical_data \in
            {Stamp(<<b>>, 1) : b \in BucketChoices(Len(latitude), Len(longitude))}
    /\ pc = "start"
    /\ daily_groups = <<>>
    /\ group_idx = 0
    /\ transform = None
    /\ mask = <<>>
    /\ zonal = None
    /\ geopolygons_daily = <<>>
    /\ printed = <<>>
    /\ raised = ""
    /\ rasterize_calls = 0
    /\ mask_log = <<>>
    /\ InitFilesIdle
    /\ InitLaunchIdle

SpecOneDay == InitOneDay /\ [][Next]_vars

---------------------------------------------------------------------------
(* What the properties below speak of. *)

N == Len(geopolygons)

NCols == Len(longitude)

NCells == Len(latitude) * Len(longitude)

\* zonal_aggregation has just returned: zonal holds the statistics of the
\* day bucket DailyData, computed with mask.
Returned == pc = "assign"

DailyData == daily_groups[group_idx].daily_data

\* The polygons (by input index, from 1) that cover cell k.
Covering(k) ==
    {i \in 1 .. N : Covers(geopolygons[i].geometry, transform, k, NCols)}

SetMax(S) == CHOOSE x \in S : \A y \in S : y <= x

\* The masked cell set of zone z in the 2-D slice: the cells whose zone id
\* is z and whose value is not missing.
MaskedCells(slice, z) == {k \in 1 .. NCells : mask[k] = z /\ ~IsNaN(slice[k])}

RECURSIVE SumWithin(_, _, _, _)
\* The sum of the values f[x], x in S and from a to b.
SumWithin(f, S, a, b) ==
    IF a > b THEN Num(0)
    ELSE IF a = b THEN (IF a \in S THEN f[a] ELSE Num(0))
    ELSE AddF(SumWithin(f, S, a, (a + b) \div 2),
              SumWithin(f, S, (a + b) \div 2 + 1, b))

\* The sum of the values f[x] of the sequence f, x in S.
SumOver(f, S) == SumWithin(f, S, 1, Len(f))

\* The samples of zone z in the bucket: (timestamp, cell) with a valid value.
Samples(data, z) ==
    {<<t, k>> \in (1 .. Len(data)) \X (1 .. NCells) : k \in MaskedCells(data[t], z)}

SampleValues(data, z) == {data[s[1]][s[2]] : s \in Samples(data, z)}

SampleSum(data, z) ==
    SumOver([t \in 1 .. Len(data) |-> SumOver(data[t], MaskedCells(data[t], z))],
            1 .. Len(data))

LeqF(x, y) == ~LessF(y, x)

\* C1 (as claimed): a zone whose masked cell set is empty has mean, min, max
\* and sum all NaN.
C1_EmptyZoneAllNaN ==
    Returned =>
        \A z \in 1 .. N :
            Samples(DailyData, z) = {} =>
                /\ IsNaN(zonal.zonal_means[z])
                /\ IsNaN(zonal.zonal_minimums[z])
                /\ IsNaN(zonal.zonal_maximums[z])
                /\ IsNaN(zonal.zonal_totals[z])

\* C2: a cell covered by two or more polygons holds, in the zone raster, the
\* id (input index + 1, which is the index from 1) of the covering polygon
\* that is latest in the input sequence.
C2_LastWriteWins ==
    pc \in {"reduce", "assign"} =>
        \A k \in 1 .. NCells :
            Cardinality(Covering(k)) >= 2 => mask[k] = SetMax(Covering(k))

\* C2's case: a rasterized cell that an earlier and a later polygon cover.
C2_Witness ==
    /\ pc = "reduce"
    /\ \E k \in 1 .. NCells : Covering(k) = {1, 2} /\ mask[k] = 2

\* C3: the statistics of a zone with a valid sample are those of exactly the
\* cells whose zone id is z and whose value is not missing: the mean is
\* their sum over their number, the min and the max are the least and the
\* greatest of them, the total is their sum.
C3_StatsOverMaskedCells ==
    Returned =>
        \A z \in 1 .. N :
            LET S == Samples(DailyData, z)
                V == SampleValues(DailyData, z)
            IN  S # {} =>
                    /\ zonal.zonal_totals[z] = SampleSum(DailyData, z)
                    /\ zonal.zonal_means[z] = DivF(SampleSum(DailyData, z), Cardinality(S))
                    /\ zonal.zonal_minimums[z] \in V
                    /\ \A v \in V : LeqF(zonal.zonal_minimums[z], v)
                    /\ zonal.zonal_maximums[z] \in V
                    /\ \A v \in V : LeqF(v, zonal.zonal_maximums[z])

\* C3's case: a zone with a valid cell and a missing cell, beside a valid
\* cell of no zone, in a single slice.
C3_Witness ==
    /\ Returned
    /\ Len(DailyData) = 1
    /\ \E z \in 1 .. N :
        /\ MaskedCells(DailyData[1], z) # {}
        /\ \E k \in 1 .. NCells : mask[k] = z /\ IsNaN(DailyData[1][k])
    /\ \E k \in 1 .. NCells : mask[k] = 0 /\ ~IsNaN(DailyData[1][k])

\* The values of cell k along the time axis of the bucket.
AlongTime(data, k) == [t \in 1 .. Len(data) |-> data[t][k]]

\* The bucket reduced along the time axis, per cell: the 2-D slices of the
\* temporal means, minima and maxima.
TimeMean(data) ==
    [k \in 1 .. NCells |->
        IF CountValid(AlongTime(data, k)) = 0 THEN NaN
        ELSE DivF(SumSkipna(AlongTime(data, k)), CountValid(AlongTime(data, k)))]

TimeMin(data) == [k \in 1 .. NCells |-> MinSkipna(AlongTime(data, k))]

TimeMax(data) == [k \in 1 .. NCells |-> MaxSkipna(AlongTime(data, k))]

\* The cells of zone z that are valid at some timestamp of the bucket all
\* have the same number of valid timestamps.
EvenlyMissing(data, z) ==
    \A k1, k2 \in 1 .. NCells :
        /\ mask[k1] = z /\ mask[k2] = z
        /\ CountValid(AlongTime(data, k1)) > 0
        /\ CountValid(AlongTime(data, k2)) > 0
        => CountValid(AlongTime(data, k1)) = CountValid(AlongTime(data, k2))

\* C4 (as claimed): the daily mean, min and max of every zone are the zonal
\* reductions of the per-cell temporal mean, min and max slices, whatever
\* the bucket holds.
C4_TwoStageAlways ==
    Returned =>
        \A z \in 1 .. N :
            /\ zonal.zonal_means[z] = ZoneStats(<<TimeMean(DailyData)>>, mask, z).mean
            /\ zonal.zonal_minimums[z] = ZoneStats(<<TimeMin(DailyData)>>, mask, z).min
            /\ zonal.zonal_maximums[z] = ZoneStats(<<TimeMax(DailyData)>>, mask, z).max

\* C4 (amended): the daily min and max of every zone are the zonal min and
\* max of the per-cell temporal min and max slices; the daily mean is the
\* mean of the zone's valid (timestamp, cell) samples, and it is the zonal
\* mean of the per-cell temporal means when the zone's cells are evenly
\* missing.
C4_TwoStageWhenEven ==
    Returned =>
        \A z \in 1 .. N :
            /\ zonal.zonal_minimums[z] = ZoneStats(<<TimeMin(DailyData)>>, mask, z).min
            /\ zonal.zonal_maximums[z] = ZoneStats(<<TimeMax(DailyData)>>, mask, z).max
            /\ Samples(DailyData, z) # {} =>
                    zonal.zonal_means[z] =
                        DivF(SampleSum(DailyData, z), Cardinality(Samples(DailyData, z)))
            /\ EvenlyMissing(DailyData, z) =>
                    zonal.zonal_means[z] = ZoneStats(<<TimeMean(DailyData)>>, mask, z).mean

\* C4's case: a bucket of several timestamps, and a zone with two cells
\* that are valid at some timestamp, evenly missing.
C4_Witness ==
    /\ Returned
    /\ Len(DailyData) >= 2
    /\ \E z \in 1 .. N :
        /\ EvenlyMissing(DailyData, z)
        /\ \E k \in 1 .. NCells : mask[k] = z /\ IsNaN(DailyData[2][k])
        /\ \E k1, k2 \in 1 .. NCells :
            /\ k1 # k2 /\ mask[k1] = z /\ mask[k2] = z
            /\ CountValid(AlongTime(DailyData, k1)) > 0
            /\ CountValid(AlongTime(DailyData, k2)) > 0

\* C5 (as claimed): when the run is done its result, the table of daily
\* statistics, holds one record per (day, zone) pair, D * N in all, the days
\* ascending and the zones of a day in input polygon order, the records of
\* the earlier days among them.
C5_AllDaysInResult ==
    pc = "done" =>
        /\ Len(geopolygons_daily) = Cardinality(Dates(historical_data)) * N
        /\ \A g \in 1 .. Len(daily_groups) : \A i \in 1 .. N :
            /\ (g - 1) * N + i \in DOMAIN geopolygons_daily
            /\ geopolygons_daily[(g - 1) * N + i].date = daily_groups[g].day
            /\ geopolygons_daily[(g - 1) * N + i].location = geopolygons[i].location

\* C6 (as claimed): the polygons are rasterized once in a run.
C6_RasterizedOnce == rasterize_calls <= 1

\* C6 (amended): the polygons are rasterized once per day bucket, each time
\* before that day's reduction, and every reduction uses a raster equal to
\* the one of the first day.
C6_RasterizedPerDay ==
    /\ rasterize_calls = Len(mask_log) + (IF pc = "reduce" THEN 1 ELSE 0)
    /\ pc = "done" => rasterize_calls = Len(daily_groups)
    /\ \A i \in 1 .. Len(mask_log) : mask_log[i] = mask_log[1]
    /\ pc = "assign" => mask_log[Len(mask_log)] = mask

\* C6's case: a finished run over two days or more.
C6_Witness ==
    /\ pc = "done"
    /\ Len(daily_groups) >= 2
    /\ Len(mask_log) = Len(daily_groups)

\* The bucket is a full day of identical hourly slices.
FullDayIdentical(data) ==
    /\ Len(data) = HoursPerDay
    /\ \A t \in 1 .. Len(data) : data[t] = data[1]

\* C7: for a bucket of 24 identical hourly slices and a zone with a valid
\* cell, the daily mean is the zonal mean of the single slice and the daily
\* total is 24 times the zonal sum of the single slice.
C7_FullDayOfIdenticalSlices ==
    Returned /\ FullDayIdentical(DailyData) =>
        \A z \in 1 .. N :
            MaskedCells(DailyData[1], z) # {} =>
                /\ zonal.zonal_means[z] = ZoneStats(<<DailyData[1]>>, mask, z).mean
                /\ zonal.zonal_totals[z] =
                        MulF(ZoneStats(<<DailyData[1]>>, mask, z).total, HoursPerDay)

\* C7's case: a full day of identical slices, and a zone with a valid and a
\* missing cell.
C7_Witness ==
    /\ Returned
    /\ FullDayIdentical(DailyData)
    /\ \E z \in 1 .. N :
        /\ MaskedCells(DailyData[1], z) # {}
        /\ \E k \in 1 .. NCells : mask[k] = z /\ IsNaN(DailyData[1][k])

\* The zones in whose masked cell set cell k of the slice is counted.
CountedIn(slice, k) ==
    {z \in 1 .. N : PolygonMask(mask, z)[k] /\ ~IsNaN(slice[k])}

\* The number of valid cells of zone z in the slice.
ZoneCount(slice, z) == ArrayCount(Where(<<slice>>, PolygonMask(mask, z)))

\* C8: in every 2-D slice each cell is counted in the masked cell set of at
\* most one zone, and the zones' counts of valid cells sum to at most
\* rows * cols.
C8_CellInAtMostOneZone ==
    Returned =>
        \A t \in 1 .. Len(DailyData) :
            /\ \A k \in 1 .. NCells : Cardinality(CountedIn(DailyData[t], k)) <= 1
            /\ SumInt([z \in 1 .. N |-> ZoneCount(DailyData[t], z)]) <= NCells

\* C8's case: two polygons that cover a common valid cell.
C8_Witness ==
    /\ Returned
    /\ \E k \in 1 .. NCells :
        /\ Cardinality(Covering(k)) >= 2
        /\ ~IsNaN(DailyData[1][k])

TooShort == Len(latitude) < 2 \/ Len(longitude) < 2

\* C9 (as claimed): with an axis of fewer than 2 samples the run ends with
\* InsufficientResolutionError, before any rasterization or reduction.
C9_InsufficientResolutionError ==
    TooShort /\ pc \notin {"start", "transform"} =>
        /\ pc = "raised"
        /\ raised = "InsufficientResolutionError"
        /\ rasterize_calls = 0
        /\ mask_log = <<>>

\* C9 (amended): with an axis of fewer than 2 samples the run ends with
\* IndexError, before any rasterization or reduction, nothing printed; and
\* it ends so in no other case.
C9_IndexError ==
    /\ TooShort /\ pc \notin {"start", "transform"} =>
        /\ pc = "raised"
        /\ raised = "IndexError"
        /\ rasterize_calls = 0
        /\ mask_log = <<>>
        /\ zonal = None
        /\ printed = <<>>
    /\ pc = "raised" => TooShort

\* C9's case: the run has ended on an axis of a single sample.
C9_Witness == pc = "raised" /\ raised # ""

---------------------------------------------------------------------------
(* The processing of the downloaded files: CDSAPIClient.post_fetch         *)
(* (cds_async.py, lines 139-198) and CDSAPI.concat_all (cds.py, lines      *)
(* 155-195).  files[v][i] tells whether xr.open_dataset succeeds on the    *)
(* i-th path that glob gives for variable v.                               *)

Clients == {"CDSAPIClient", "CDSAPI"}

FilesChoices ==
    UNION {[1 .. n -> UNION {[1 .. m -> BOOLEAN] : m \in 0 .. MaxFiles}] :
                n \in 1 .. MaxVariables}

InitFiles ==
    /\ client \in Clients
    /\ files \in FilesChoices
    /\ fpc = "lookup"
    /\ var_idx = 0
    /\ file_idx = 0
    /\ dataset = <<>>
    /\ log = <<>>
    /\ saved = <<>>
    /\ latitude = <<>>
    /\ longitude = <<>>
    /\ geopolygons = <<>>
    /\ historical_data = <<>>
    /\ pc = "idle"
    /\ daily_groups = <<>>
    /\ group_idx = 0
    /\ transform = None
    /\ mask = <<>>
    /\ zonal = None
    /\ geopolygons_daily = <<>>
    /\ printed = <<>>
    /\ raised = ""
    /\ rasterize_calls = 0
    /\ mask_log = <<>>
    /\ InitLaunchIdle

Message(level, event, v, i) ==
    [level |-> level, event |-> event, variable |-> v, file |-> i]

\* The logger of post_fetch; concat_all prints, and only some of the events.
Logged(level, event, v, i) ==
    IF client = "CDSAPIClient" \/ event \in {"skipping", "opened"}
    THEN Append(log, Message(level, event, v, i))
    ELSE log

\* post_fetch lines 145-152, concat_all lines 159-160: the province lookup
\* is read.  post_fetch logs a failure and returns; concat_all has no try.
LoadLookup ==
    /\ fpc = "lookup"
    /\ \E ok \in BOOLEAN :
        IF ok
        THEN /\ log' = Logged("info", "lookup loaded", 0, 0)
             /\ fpc' = "open"
             /\ var_idx' = 1
             /\ file_idx' = 1
             /\ UNCHANGED raised
        ELSE /\ IF client = "CDSAPIClient"
                THEN /\ log' = Logged("error", "lookup failed", 0, 0)
                     /\ fpc' = "returned"
                     /\ UNCHANGED raised
                ELSE /\ fpc' = "raised"
                     /\ raised' = "FileNotFoundError"
                     /\ UNCHANGED log
             /\ UNCHANGED <<var_idx, file_idx>>
    /\ UNCHANGED <<files, dataset, saved, client>>
    /\ UNCHANGED <<latitude, longitude, geopolygons, historical_data, pc,
                   daily_groups, group_idx, transform, mask, zonal,
                   geopolygons_daily, printed, rasterize_calls, mask_log>>
    /\ UNCHANGED launchVars

\* A faulty variant of OpenFile: no try around xr.open_dataset, so that a
\* broken file ends the run.
OpenFileNoTry ==
    /\ fpc = "open"
    /\ file_idx <= Len(files[var_idx])
    /\ IF files[var_idx][file_idx]
       THEN /\ dataset' = Append(dataset, file_idx)
            /\ file_idx' = file_idx + 1
            /\ UNCHANGED <<fpc, raised>>
       ELSE /\ fpc' = "raised"
            /\ raised' = "OSError"
            /\ UNCHANGED <<dataset, file_idx>>
    /\ UNCHANGED <<files, var_idx, saved, client, log>>
    /\ UNCHANGED <<latitude, longitude, geopolygons, historical_data, pc,
                   daily_groups, group_idx, transform, mask, zonal,
                   geopolygons_daily, printed, rasterize_calls, mask_log>>
    /\ UNCHANGED launchVars

\* post_fetch lines 161-167, concat_all lines 167-174: one pass of the loop
\* over file_paths.  A file that fails to open is reported and left out.
OpenFile ==
    /\ fpc = "open"
    /\ file_idx <= Len(files[var_idx])
    /\ IF files[var_idx][file_idx]
       THEN /\ dataset' = Append(dataset, file_idx)
            /\ log' = IF client = "CDSAPI"
                      THEN Logged("print", "opened", var_idx, file_idx)
                      ELSE log
       ELSE /\ log' = Logged("warning", "skipping", var_idx, file_idx)
            /\ UNCHANGED dataset
    /\ file_idx' = file_idx + 1
    /\ UNCHANGED <<files, var_idx, saved, client, fpc, raised>>
    /\ UNCHANGED <<latitude, longitude, geopolygons, historical_data, pc,
                   daily_groups, group_idx, transform, mask, zonal,
                   geopolygons_daily, printed, rasterize_calls, mask_log>>
    /\ UNCHANGED launchVars

\* post_fetch lines 169-198, concat_all lines 176-195: the files opened are
\* concatenated, aggregated, interpolated and saved.  xr.concat of an empty
\* list raises ValueError: post_fetch logs it and goes on with the next
\* variable, concat_all has no try.
ProcessVariable ==
    /\ fpc = "open"
    /\ file_idx > Len(files[var_idx])
    /\ IF dataset = <<>> /\ client = "CDSAPI"
       THEN /\ fpc' = "raised"
            /\ raised' = "ValueError"
            /\ UNCHANGED <<log, saved, var_idx, file_idx, dataset>>
       ELSE /\ IF dataset = <<>>
               THEN /\ log' = Logged("error", "processing failed", var_idx, 0)
                    /\ UNCHANGED saved
               ELSE /\ log' = Logged("info", "saved", var_idx, 0)
                    /\ saved' = Append(saved, [variable |-> var_idx, data |-> dataset])
            /\ var_idx' = var_idx + 1
            /\ file_idx' = 1
            /\ dataset' = <<>>
            /\ fpc' = IF var_idx < Len(files) THEN "open" ELSE "done"
            /\ UNCHANGED raised
    /\ UNCHANGED <<files, client>>
    /\ UNCHANGED <<latitude, longitude, geopolygons, historical_data, pc,
                   daily_groups, group_idx, transform, mask, zonal,
                   geopolygons_daily, printed, rasterize_calls, mask_log>>
    /\ UNCHANGED launchVars

NextFiles ==
    \/ LoadLookup
    \/ OpenFile
    \/ ProcessVariable

SpecFiles == InitFiles /\ [][NextFiles]_vars

\* The files of variable v that open, in glob's order, and those that do not.
ValidFiles(v) ==
    LET idx == [i \in 1 .. Len(files[v]) |-> i]
        opens(i) == files[v][i]
    IN  SelectSeq(idx, opens)

BrokenFiles(v) == {i \in 1 .. Len(files[v]) : ~files[v][i]}

\* The variables whose pass of the outer loop is over.
Finished(v) == v \in 1 .. Len(files) /\ v < var_idx

SavedOf(v) == SelectSeq(saved, LAMBDA r : r.variable = v)

SkipsLogged(v) ==
    {j \in 1 .. Len(log) : log[j].event = "skipping" /\ log[j].variable = v}

\* The run is over: it has gone through every variable, or has stopped.
Over == fpc \in {"done", "raised", "returned"}

LookupLoaded == fpc \in {"open", "done"} \/ (fpc = "raised" /\ var_idx >= 1)

---------------------------------------------------------------------------
(* The rasterization on more grids: north-up and south-up, uniform or not, *)
(* two or three samples to an axis, the longitudes ascending or not.       *)

RasterLatChoices == {<<8, 4, 0>>, <<0, 4, 8>>, <<8, 4, 2>>, <<8, 4>>, <<0, 8>>}

RasterLonChoices == {<<0, 4, 8>>, <<0, 4, 6>>, <<8, 4, 0>>, <<0, 8>>}

\* A run of daily_aggregation over one timestamp on any of these grids.
InitRaster ==
    /\ latitude \in RasterLatChoices
    /\ longitude \in RasterLonChoices
    /\ geopolygons \in SeqsUpTo(PolygonChoices, MaxPolygons)
    /\ historical_data = Stamp(<<(<<Ramp(Len(latitude), Len(longitude))>>)>>, 1)
    /\ pc = "start"
    /\ daily_groups = <<>>
    /\ group_idx = 0
    /\ transform = None
    /\ mask = <<>>
    /\ zonal = None
    /\ geopolygons_daily = <<>>
    /\ printed = <<>>
    /\ raised = ""
    /\ rasterize_calls = 0
    /\ mask_log = <<>>
    /\ InitFilesIdle
    /\ InitLaunchIdle

SpecRaster == InitRaster /\ [][Next]_vars

\* features.rasterize has returned in this run.
Rasterized == rasterize_calls >= 1

\* C11: the zone raster has |latitude| * |longitude| cells, each holding a
\* value in 0..N: 0 where no polygon covers the cell, and otherwise the
\* burn value of a polygon that covers it, which is its input index + 1
\* (its index from 1).
C11_ZoneIdsDense ==
    Rasterized =>
        /\ Len(mask) = Len(latitude) * Len(longitude)
        /\ \A k \in 1 .. Len(mask) :
            /\ mask[k] \in 0 .. N
            /\ mask[k] = 0 <=> Covering(k) = {}
            /\ mask[k] >= 1 => mask[k] \in Covering(k)

\* C11's case: a raster with a cell of no polygon, a cell of the first
\* polygon and a cell of the second.
C11_Witness ==
    /\ Rasterized
    /\ N = 2
    /\ \E k0, k1, k2 \in 1 .. Len(mask) : mask[k0] = 0 /\ mask[k1] = 1 /\ mask[k2] = 2

\* The polygon whose ring is the footprint of the cell centred on the
\* sample of row 1, column 1 (rows and columns from 0) of the C12 grid:
\* latitude 1/2 to 3/2, longitude 1/2 to 3/2.
CentreCell == [w |-> 2, e |-> 6, s |-> 2, n |-> 6]

\* C12 (as claimed): on the grid of latitudes [2, 1, 0] and longitudes
\* [0, 1, 2], the single polygon that exactly covers the cell of row 1,
\* column 1 gives a zone raster with 1 at that cell and 0 at the other eight.
C12_OnlyTheCentreCell ==
    /\ Rasterized
    /\ latitude = <<8, 4, 0>>
    /\ longitude = <<0, 4, 8>>
    /\ N = 1
    /\ geopolygons[1].geometry = CentreCell
    => mask = <<0, 0, 0, 0, 1, 0, 0, 0, 0>>

\* C13: the transform has pixel width longitudes[1] - longitudes[0] and
\* pixel height latitudes[1] - latitudes[0] (the first two samples, here at
\* 1 and 2), no shear, its origin at the first samples, and a height that
\* is negative exactly when latitudes[1] < latitudes[0].
C13_PixelSizeFromFirstTwo ==
    transform # None =>
        /\ transform.a = longitude[2] - longitude[1]
        /\ transform.e = latitude[2] - latitude[1]
        /\ transform.b = 0 /\ transform.d = 0
        /\ transform.c = longitude[1] /\ transform.f = latitude[1]
        /\ transform.e < 0 <=> latitude[2] < latitude[1]

\* C13's case: a transform derived from a latitude axis of three samples
\* that is not uniform, going south.
C13_Witness ==
    /\ transform # None
    /\ Len(latitude) = 3
    /\ latitude[3] - latitude[2] # latitude[2] - latitude[1]
    /\ transform.e < 0

---------------------------------------------------------------------------
(* The scoping of the requests: CDSAPIClient.scope_years, scope_date and   *)
(* the request loop of fetch (cds_async.py, lines 39-137).  A datetime is  *)
(* the ordinal of its day, counted from 1 January of FirstYear, and its    *)
(* hour.  strftime's zero-padded strings are the numbers they spell: they  *)
(* have a fixed width, so sorting them sorts the numbers.                  *)

FirstYear == 2025

MaxYears == 3       \* calendar years the dates are drawn from

MaxTasks == 3       \* retrievals of a run whose worker threads are followed

YearChoices == FirstYear .. (FirstYear + MaxYears - 1)

IsLeap(y) == (y % 4 = 0 /\ y % 100 # 0) \/ y % 400 = 0

DaysInMonth(y, m) ==
    IF m = 2 THEN (IF IsLeap(y) THEN 29 ELSE 28)
    ELSE IF m \in {4, 6, 9, 11} THEN 30 ELSE 31

YearLen(y) == IF IsLeap(y) THEN 366 ELSE 365

RECURSIVE DaysBeforeYear(_)
DaysBeforeYear(y) ==
    IF y <= FirstYear THEN 0 ELSE DaysBeforeYear(y - 1) + YearLen(y - 1)

RECURSIVE DaysBeforeMonth(_, _)
DaysBeforeMonth(y, m) ==
    IF m <= 1 THEN 0 ELSE DaysBeforeMonth(y, m - 1) + DaysInMonth(y, m - 1)

\* datetime(y, m, d, h)
Datetime(y, m, d, h) ==
    [ord |-> DaysBeforeYear(y) + DaysBeforeMonth(y, m) + d, hour |-> h]

MonthDates(y, m) ==
    [d \in 1 .. DaysInMonth(y, m) |-> [year |-> y, month |-> m, day |-> d]]

RECURSIVE DatesUpTo(_, _)
DatesUpTo(y, m) ==
    IF y < FirstYear THEN <<>>
    ELSE IF m = 0 THEN DatesUpTo(y - 1, 12)
    ELSE DatesUpTo(y, m - 1) \o MonthDates(y, m)

\* The calendar: the year, month and day of each ordinal.
Calendar == DatesUpTo(FirstYear + MaxYears - 1, 12)

\* dt.replace(hour=0, minute=0, second=0, microsecond=0)
Midnight(dt) == [dt EXCEPT !.hour = 0]

InHours(dt) == dt.ord * HoursPerDay + dt.hour

\* (end - from).days: timedelta normalises to whole days rounded down.
TimedeltaDays(end, from) == (InHours(end) - InHours(from)) \div HoursPerDay

\* A faulty variant of DateList: range() without the + 1.
DateListShort(from, end) == {from.ord + x : x \in 0 .. (TimedeltaDays(end, from) - 1)}

\* [from + timedelta(days=x) for x in range((end - from).days + 1)], as the
\* set of the days of its elements.
DateList(from, end) == {from.ord + x : x \in 0 .. TimedeltaDays(end, from)}

RECURSIVE Ascending(_)
Ascending(S) ==
    IF S = {} THEN <<>>
    ELSE LET least == CHOOSE x \in S : \A y \in S : x <= y
         IN  <<least>> \o Ascending(S \ {least})

\* scope_years, lines 46-48.
ScopeYears ==
    Ascending({Calendar[o].year : o \in DateList(start, Midnight(latest))})

\* scope_date, lines 61-79.
ScopeDate(year) ==
    LET jan1 == Datetime(year, 1, 1, 0)
        from == IF InHours(jan1) < InHours(start) THEN start ELSE jan1
        date_list ==
            IF Calendar[latest.ord].year = year
            THEN DateList(from, Midnight(latest))
            ELSE DateList(start, Datetime(year, 12, 31, 0))
    IN  [hours  |-> [h \in 1 .. HoursPerDay |-> h - 1],
         days   |-> Ascending({Calendar[o].day : o \in date_list}),
         months |-> Ascending({Calendar[o].month : o \in date_list})]

\* The dates the configurations are drawn from: the first, the middle and
\* the last day of some months.
DateChoices(ys) ==
    {Datetime(y, m, d, 0) : y \in ys, m \in {2, 8, 12}, d \in {1, 15}}
        \cup {Datetime(y, m, DaysInMonth(y, m), 0) : y \in ys, m \in {2, 8, 12}}

\* The hour of day of end - delay: end is datetime.now().
LatestHours == {0, 9}

\* __init__, lines 33-36: the start is a date, end - delay any datetime.
InitConfig ==
    /\ start \in DateChoices({FirstYear})
    /\ latest \in {[dt EXCEPT !.hour = h] : dt \in DateChoices(YearChoices), h \in LatestHours}
    /\ InHours(start) <= InHours(Midnight(latest))
    /\ variables \in 1 .. MaxVariables
    /\ years = None
    /\ months = None
    /\ days = None
    /\ hours = None
    /\ fetch_var = 0
    /\ year_idx = 0
    /\ month_idx = 0
    /\ tasks = <<>>
    /\ lpc = "pre_fetch"

InitAggIdle ==
    /\ latitude = <<>>
    /\ longitude = <<>>
    /\ geopolygons = <<>>
    /\ historical_data = <<>>
    /\ pc = "idle"
    /\ daily_groups = <<>>
    /\ group_idx = 0
    /\ transform = None
    /\ mask = <<>>
    /\ zonal = None
    /\ geopolygons_daily = <<>>
    /\ printed = <<>>
    /\ raised = ""
    /\ rasterize_calls = 0
    /\ mask_log = <<>>

InitFetch == InitConfig /\ InitAggIdle /\ InitFilesIdle

\* pre_fetch, lines 205-211.
PreFetch ==
    /\ lpc = "pre_fetch"
    /\ years' = ScopeYears
    /\ lpc' = "fetch"
    /\ UNCHANGED <<start, latest, variables, months, days, hours,
                   fetch_var, year_idx, month_idx, tasks>>
    /\ UNCHANGED <<aggVars, fileVars>>

\* fetch, lines 87-94: the client is created, which fails without a key
\* or a url; then the loops start.
FetchClient ==
    /\ lpc = "fetch"
    /\ \E ok \in BOOLEAN :
        IF ok
        THEN /\ lpc' = "loop"
             /\ fetch_var' = 1
             /\ year_idx' = 1
        ELSE /\ lpc' = "raised"
             /\ UNCHANGED <<fetch_var, year_idx>>
    /\ UNCHANGED <<start, latest, variables, years, months, days, hours,
                   month_idx, tasks>>
    /\ UNCHANGED <<aggVars, fileVars>>

\* The loops of lines 97-101 are over.
LoopOver == lpc = "loop" /\ (fetch_var > variables \/ years = <<>>)

\* Where the loops over variables and years stand after a year is done.
AfterYear ==
    IF year_idx < Len(years)
    THEN [fetch_var |-> fetch_var, year_idx |-> year_idx + 1]
    ELSE [fetch_var |-> fetch_var + 1, year_idx |-> 1]

\* fetch, lines 100-101: the next year of the next variable is scoped.
FetchScopeDate ==
    /\ lpc = "loop"
    /\ ~LoopOver
    /\ LET scope == ScopeDate(years[year_idx])
       IN  /\ hours' = scope.hours
           /\ days' = scope.days
           /\ months' = scope.months
           /\ month_idx' = 1
           /\ IF scope.months = <<>>
              THEN /\ fetch_var' = AfterYear.fetch_var
                   /\ year_idx' = AfterYear.year_idx
                   /\ UNCHANGED lpc
              ELSE /\ lpc' = "submit"
                   /\ UNCHANGED <<fetch_var, year_idx>>
    /\ UNCHANGED <<start, latest, variables, years, tasks>>
    /\ UNCHANGED <<aggVars, fileVars>>

\* fetch, lines 102-130: one pass of the loop over self.months hands one
\* retrieval to the executor and sleeps.
FetchSubmit ==
    /\ lpc = "submit"
    /\ tasks' = Append(tasks, [variable |-> fetch_var,
                               year |-> years[year_idx],
                               month |-> months[month_idx],
                               day |-> days,
                               time |-> hours,
                               status |-> "running"])
    /\ IF month_idx < Len(months)
       THEN /\ month_idx' = month_idx + 1
            /\ UNCHANGED <<fetch_var, year_idx, lpc>>
       ELSE /\ fetch_var' = AfterYear.fetch_var
            /\ year_idx' = AfterYear.year_idx
            /\ lpc' = "loop"
            /\ UNCHANGED month_idx
    /\ UNCHANGED <<start, latest, variables, years, months, days, hours>>
    /\ UNCHANGED <<aggVars, fileVars>>

NextFetch ==
    \/ PreFetch
    \/ FetchClient
    \/ FetchScopeDate
    \/ FetchSubmit

SpecFetch == InitFetch /\ [][NextFetch]_vars

\* The retrievals issued for variable v and the chunk of year y, month m.
Retrievals(v, y, m) ==
    {i \in 1 .. Len(tasks) :
        tasks[i].variable = v /\ tasks[i].year = y /\ tasks[i].month = m}

\* The dates from start to latest, and their (year, month) chunks.
Scope == start.ord .. latest.ord

Chunks == {<<Calendar[o].year, Calendar[o].month>> : o \in Scope}

DaysOf(i) == {tasks[i].day[j] : j \in 1 .. Len(tasks[i].day)}

\* C15: once the request loop is over, each variable has exactly one
\* retrieval for each (year, month) chunk of the dates from start to
\* latest and none for any other, and every date from start to latest has
\* its day of the month in the day list of the retrieval of its own year
\* and month.
C15_EveryDateInItsChunk ==
    LoopOver =>
        /\ \A i \in 1 .. Len(tasks) :
            /\ tasks[i].variable \in 1 .. variables
            /\ <<tasks[i].year, tasks[i].month>> \in Chunks
        /\ \A v \in 1 .. variables : \A c \in Chunks :
            /\ Cardinality(Retrievals(v, c[1], c[2])) = 1
            /\ \A i \in Retrievals(v, c[1], c[2]) :
                \A o \in Scope :
                    Calendar[o].year = c[1] /\ Calendar[o].month = c[2]
                        => Calendar[o].day \in DaysOf(i)

\* C15's case: the loop is over for a start in the middle of a month and a
\* latest date two years or more after it, in the middle of a month too.
C15_Witness ==
    /\ LoopOver
    /\ Calendar[start.ord].day = 15
    /\ Calendar[latest.ord].day = 15
    /\ Calendar[latest.ord].year >= Calendar[start.ord].year + 2
    /\ Len(tasks) > 12 * variables

---------------------------------------------------------------------------
(* launch (cds_async.py, lines 213-220): pre_fetch, then fetch with the    *)
(* retrievals running in the threads of the executor while the loop        *)
(* submits and sleeps, then post_fetch.  The runs followed are those of    *)
(* at most MaxTasks retrievals.                                            *)

InitLaunch ==
    /\ InitFetch
    /\ variables * Cardinality(Chunks) <= MaxTasks

\* A worker thread: client.retrieve returns, the chunk file is written.
TaskFinish ==
    /\ \E i \in 1 .. Len(tasks) :
        /\ tasks[i].status = "running"
        /\ tasks' = [tasks EXCEPT ![i].status = "done"]
    /\ UNCHANGED <<start, latest, variables, years, months, days, hours,
                   fetch_var, year_idx, month_idx, lpc>>
    /\ UNCHANGED <<aggVars, fileVars>>

\* A worker thread: client.retrieve raises.
TaskFail ==
    /\ \E i \in 1 .. Len(tasks) :
        /\ tasks[i].status = "running"
        /\ tasks' = [tasks EXCEPT ![i].status = "failed"]
    /\ UNCHANGED <<start, latest, variables, years, months, days, hours,
                   fetch_var, year_idx, month_idx, lpc>>
    /\ UNCHANGED <<aggVars, fileVars>>

\* A faulty variant of Gather: fetch returns without awaiting the tasks.
GatherNoWait ==
    /\ LoopOver
    /\ lpc' = "fetched"
    /\ UNCHANGED <<start, latest, variables, years, months, days, hours,
                   fetch_var, year_idx, month_idx, tasks>>
    /\ UNCHANGED <<aggVars, fileVars>>

\* fetch, lines 136-137: await asyncio.gather(*tasks) gives way to the
\* first exception of a task, and otherwise returns when every task has
\* returned; fetch has no try around it and launch has none around fetch.
Gather ==
    /\ LoopOver
    /\ IF \E i \in 1 .. Len(tasks) : tasks[i].status = "failed"
       THEN lpc' = "raised"
       ELSE /\ \A i \in 1 .. Len(tasks) : tasks[i].status = "done"
            /\ lpc' = "fetched"
    /\ UNCHANGED <<start, latest, variables, years, months, days, hours,
                   fetch_var, year_idx, month_idx, tasks>>
    /\ UNCHANGED <<aggVars, fileVars>>

\* The chunk files of variable v: one for each retrieval that returned.
\* A file of a retrieval that returned may still fail to open.
ChunkFiles(v) ==
    Cardinality({i \in 1 .. Len(tasks) :
                    tasks[i].variable = v /\ tasks[i].status = "done"})

\* launch, line 220: post_fetch is called.
PostFetch ==
    /\ lpc = "fetched"
    /\ lpc' = "post_fetch"
    /\ client' = "CDSAPIClient"
    /\ files' \in {f \in [1 .. variables -> UNION {[1 .. m -> BOOLEAN] : m \in 0 .. MaxTasks}] :
                    \A v \in 1 .. variables : Len(f[v]) = ChunkFiles(v)}
    /\ fpc' = "lookup"
    /\ UNCHANGED <<var_idx, file_idx, dataset, log, saved>>
    /\ UNCHANGED <<start, latest, variables, years, months, days, hours,
                   fetch_var, year_idx, month_idx, tasks>>
    /\ UNCHANGED aggVars

\* launch, line 220: post_fetch has returned, and launch with it.
LaunchReturn ==
    /\ lpc = "post_fetch"
    /\ fpc \in {"done", "returned"}
    /\ lpc' = "done"
    /\ UNCHANGED <<start, latest, variables, years, months, days, hours,
                   fetch_var, year_idx, month_idx, tasks>>
    /\ UNCHANGED <<aggVars, fileVars>>

NextLaunch ==
    \/ NextFetch
    \/ TaskFinish
    \/ TaskFail
    \/ Gather
    \/ PostFetch
    \/ NextFiles
    \/ LaunchReturn

SpecLaunch == InitLaunch /\ [][NextLaunch]_vars

\* post_fetch has been called: it is reading the files or has returned.
PostFetchRun == fpc # "idle"

\* C16: post_fetch runs only after pre_fetch has scoped the years and the
\* loop of fetch has submitted the retrieval of every chunk of every
\* variable, and only when every retrieval submitted has returned; once a
\* retrieval has failed, post_fetch has not run and launch does not get to
\* it.
C16_PostFetchAfterEveryRetrieval ==
    /\ lpc # "pre_fetch" => years = ScopeYears
    /\ lpc \in {"fetched", "post_fetch", "done"} =>
        /\ LoopOver \/ lpc # "loop"
        /\ fetch_var > variables
        /\ Len(tasks) = variables * Cardinality(Chunks)
        /\ \A i \in 1 .. Len(tasks) : tasks[i].status = "done"
    /\ PostFetchRun => lpc \in {"post_fetch", "done"}
    /\ (\E i \in 1 .. Len(tasks) : tasks[i].status = "failed") =>
        ~PostFetchRun /\ lpc \notin {"fetched", "post_fetch", "done"}

\* C16's case: post_fetch is opening the files of a run of two retrievals
\* or more, every one of which has returned.
C16_Witness ==
    /\ lpc = "post_fetch"
    /\ fpc = "open"
    /\ Len(tasks) >= 2
    /\ \A i \in 1 .. Len(tasks) : tasks[i].status = "done"

===========================================================================
